---- MODULE Spec2Model ----
(***************************************************************************)
(* Model of src/app.py, the fintech portfolio dashboard.                   *)
(*                                                                         *)
(* The script is re-run from top to bottom on every widget interaction.    *)
(* A state of the model is the state after one complete script pass: the   *)
(* read-only account table, the cached filter options, the session state   *)
(* of the three multiselects, and everything the pass computed from them.  *)
(*                                                                         *)
(* Numbers are exact rationals <<n, d>> (d > 0, lowest terms).  SQL NULL,  *)
(* Python None and the float NaN are three distinct values.                *)
(***************************************************************************)
EXTENDS Integers, Sequences, FiniteSets

VARIABLES
    table,          \* rows of dev.int_customer_account_metrics (read-only)
    risks,          \* load_filter_options()[0]
    regions,        \* load_filter_options()[1]
    acct_types,     \* load_filter_options()[2]
    session_state,  \* st.session_state: the three selections and _reset_filters
    where,          \* build_where_clause(sel_risks, sel_regions, sel_accts)
    overview,       \* overview_df.iloc[0].to_dict()
    wealth,         \* wealth_df.iloc[0].to_dict(), {} when wealth_df is empty
    lorenz_df,      \* rows of the Lorenz query
    gini,           \* None, NaN or a number
    curve,          \* None or the Lorenz points with the origin prepended
    deciles_df,     \* rows of the decile query
    risk_full_df,   \* rows of the risk segmentation query
    flow_by_product_df, \* rows of the net flow by account type query
    flow_by_region_df,  \* rows of the net flow by region query
    summary,        \* the narrative's variables (accounts, total_balance, ...)
    metrics         \* the strings handed to st.metric

vars == <<table, risks, regions, acct_types, session_state, where, overview,
          wealth, lorenz_df, gini, curve, deciles_df, risk_full_df,
          flow_by_product_df, flow_by_region_df, summary, metrics>>

-----------------------------------------------------------------------------
(* Missing values.                                                         *)

\* SQL NULL inside the store and inside query results before fetchdf().
NULL == <<"NULL">>

\* Python None: dict.get of a missing key, and the initial gini / curve.
None == <<>>

\* float NaN: what fetchdf() delivers for a NULL in a numeric column.
NaN == <<"nan">>

-----------------------------------------------------------------------------
(* Exact rational arithmetic.                                              *)

Abs(x) == IF x < 0 THEN -x ELSE x

RECURSIVE Gcd(_, _)
Gcd(a, b) == IF b = 0 THEN a ELSE Gcd(b, a % b)

Rat(n, d) ==
    LET s == IF d < 0 THEN -1 ELSE 1
        g == Gcd(Abs(n), Abs(d))
    IN  <<(s * n) \div g, (s * d) \div g>>

Num(n) == <<n, 1>>

Zero == <<0, 1>>

One == <<1, 1>>

RAdd(a, b) ==
    LET g == Gcd(a[2], b[2])
    IN  Rat(a[1] * (b[2] \div g) + b[1] * (a[2] \div g), (a[2] \div g) * b[2])

RNeg(a) == <<-a[1], a[2]>>

RSub(a, b) == RAdd(a, RNeg(b))

RMul(a, b) ==
    LET g1 == Gcd(Abs(a[1]), b[2])
        g2 == Gcd(Abs(b[1]), a[2])
    IN  Rat((a[1] \div g1) * (b[1] \div g2), (a[2] \div g2) * (b[2] \div g1))

\* b is not zero
RDiv(a, b) == RMul(a, Rat(b[2], b[1]))

RLt(a, b) == a[1] * b[2] < b[1] * a[2]

RLe(a, b) == a[1] * b[2] <= b[1] * a[2]

IsNum(x) == Len(x) = 2

-----------------------------------------------------------------------------
(* Text values.  A categorical value is a tuple of one-character strings,  *)
(* so that quoting and the store's reading of a quoted literal are         *)
(* computed character by character.                                        *)

Quote == "'"

Low == <<"L", "o", "w">>

Medium == <<"M", "e", "d", "i", "u", "m">>

High == <<"H", "i", "g", "h">>

North == <<"N">>

OBrien == <<"O", "'", "B">>

Savings == <<"S">>

Loan == <<"L", "n">>

\* str(v).replace("'", "''")
RECURSIVE Escape(_)
Escape(v) ==
    IF v = <<>> THEN <<>>
    ELSE (IF Head(v) = Quote THEN <<Quote, Quote>> ELSE <<Head(v)>>) \o Escape(Tail(v))

\* ", ".join(items)
RECURSIVE Join(_)
Join(items) ==
    IF items = <<>> THEN <<>>
    ELSE IF Len(items) = 1 THEN items[1]
    ELSE items[1] \o <<",", " ">> \o Join(Tail(items))

\* The selection is a list without duplicates; IN does not depend on its
\* order, so one enumeration of the selected set stands for the list.
SetToSeq(S) == CHOOSE q \in [1..Cardinality(S) -> S] : {q[i] : i \in DOMAIN q} = S

sql_in(values) ==
    LET vs == SetToSeq(values)
        lits == [i \in 1..Len(vs) |-> <<Quote>> \o Escape(vs[i]) \o <<Quote>>]
    IN  <<"(">> \o Join(lits) \o <<")">>

\* The store's lexer on a quoted literal: i is the position after the
\* opening quote; a doubled quote is one quote character, a single quote
\* ends the literal.  The result is <<value, position after the literal>>.
RECURSIVE ReadLiteral(_, _, _)
ReadLiteral(text, i, acc) ==
    IF i > Len(text) THEN <<acc, i>>
    ELSE IF text[i] = Quote
         THEN IF i + 1 <= Len(text) /\ text[i + 1] = Quote
              THEN ReadLiteral(text, i + 2, Append(acc, Quote))
              ELSE <<acc, i + 1>>
         ELSE ReadLiteral(text, i + 1, Append(acc, text[i]))

\* The set of values of the list "( 'a', 'b' )" as the store reads it.
RECURSIVE ReadInList(_, _, _)
ReadInList(text, i, out) ==
    IF i > Len(text) \/ text[i] = ")" THEN out
    ELSE IF text[i] = Quote
         THEN LET r == ReadLiteral(text, i + 1, <<>>)
              IN  ReadInList(text, r[2], out \cup {r[1]})
         ELSE ReadInList(text, i + 1, out)

InList(text) == ReadInList(text, 1, {})

-----------------------------------------------------------------------------
(* Filter options and the WHERE clause.                                    *)

Column(t, c) == {t[i][c] : i \in DOMAIN t}

\* sorted(df[c].dropna().unique().tolist()): only its length and its
\* members are used, so the list is kept as the set of its members.
load_filter_options(t) ==
    [risks      |-> Column(t, "risk_tolerance") \ {NULL},
     regions    |-> Column(t, "region") \ {NULL},
     acct_types |-> Column(t, "account_type") \ {NULL}]

Clause(column, selected, options) ==
    IF selected # {} /\ Cardinality(selected) < Cardinality(options)
    THEN <<[column |-> column, in_list |-> sql_in(selected)]>>
    ELSE <<>>

\* "" is the empty sequence of clauses; the clauses are joined by AND.
build_where_clause(risks_selected, regions_selected, accts_selected, opts) ==
    Clause("risk_tolerance", risks_selected, opts.risks)
    \o Clause("region", regions_selected, opts.regions)
    \o Clause("account_type", accts_selected, opts.acct_types)

\* column IN (...): NULL (so not true) for a NULL column value.
Passes(w, row) ==
    \A i \in DOMAIN w :
        /\ row[w[i].column] # NULL
        /\ row[w[i].column] \in InList(w[i].in_list)

\* FROM BASE {where}
Filtered(t, w) == SelectSeq(t, LAMBDA row : Passes(w, row))

-----------------------------------------------------------------------------
(* SQL aggregates over a sequence of values, each NULL or a number.        *)

NonNull(vals) == SelectSeq(vals, LAMBDA v : v # NULL)

RECURSIVE RSum(_)
RSum(nums) == IF nums = <<>> THEN Zero ELSE RAdd(Head(nums), RSum(Tail(nums)))

\* SUM(x): NULL when no row has a non-NULL x
SqlSum(vals) == IF NonNull(vals) = <<>> THEN NULL ELSE RSum(NonNull(vals))

\* AVG(x): the mean of the non-NULL x, NULL when there is none
SqlAvg(vals) ==
    IF NonNull(vals) = <<>> THEN NULL
    ELSE RDiv(RSum(NonNull(vals)), Num(Len(NonNull(vals))))

SqlMul(a, b) == IF a = NULL \/ b = NULL THEN NULL ELSE RMul(a, b)

\* a / b with b not zero
SqlDiv(a, b) == IF a = NULL \/ b = NULL THEN NULL ELSE RDiv(a, b)

Field(rows, c) == [i \in DOMAIN rows |-> rows[i][c]]

\* fetchdf(): a NULL of a numeric column arrives as NaN
Fetch(v) == IF v = NULL THEN NaN ELSE v

-----------------------------------------------------------------------------
(* Overview query.                                                         *)

\* CASE WHEN SUM(balance) = 0 THEN NULL
\*      ELSE SUM(interest_rate * balance) / SUM(balance) END
weighted_avg_interest_rate(rows) ==
    LET sum_balance == SqlSum(Field(rows, "balance"))
        products == [i \in DOMAIN rows |->
                        SqlMul(rows[i].interest_rate, rows[i].balance)]
    IN  IF sum_balance # NULL /\ sum_balance = Zero THEN NULL
        ELSE SqlDiv(SqlSum(products), sum_balance)

\* The aggregate has no GROUP BY: it returns one row, also over no records.
overview_df(t, w) ==
    LET rows == Filtered(t, w)
    IN  [accounts                   |-> Num(Len(rows)),
         total_balance              |-> Fetch(SqlSum(Field(rows, "balance"))),
         total_loan_amount          |-> Fetch(SqlSum(Field(rows, "loan_amount"))),
         weighted_avg_interest_rate |-> Fetch(weighted_avg_interest_rate(rows)),
         avg_net_flow               |-> Fetch(SqlAvg(Field(rows, "net_flow"))),
         total_net_flow             |-> Fetch(SqlSum(Field(rows, "net_flow")))]

-----------------------------------------------------------------------------
(* Concentration queries.                                                  *)

\* base: SELECT balance FROM BASE {where} {and_or_where}
\*       balance IS NOT NULL AND balance >= 0
base(t, w) ==
    Field(SelectSeq(Filtered(t, w),
                    LAMBDA row : row.balance # NULL /\ RLe(Zero, row.balance)),
          "balance")

RECURSIVE Insert(_, _)
Insert(x, sorted) ==
    IF sorted = <<>> THEN <<x>>
    ELSE IF RLe(x, Head(sorted)) THEN <<x>> \o sorted
    ELSE <<Head(sorted)>> \o Insert(x, Tail(sorted))

\* ORDER BY balance ASC.  Rows with equal balances are interchangeable.
RECURSIVE OrderAsc(_)
OrderAsc(b) == IF b = <<>> THEN <<>> ELSE Insert(Head(b), OrderAsc(Tail(b)))

Reverse(q) == [i \in 1..Len(q) |-> q[Len(q) + 1 - i]]

\* ORDER BY balance DESC
OrderDesc(b) == Reverse(OrderAsc(b))

\* mutant of TopCount: the count rounded down
TopCountFloor(n) == n \div 10

\* CEIL(n * 0.10): n * 0.10 is an exact decimal
TopCount(n) == (n + 9) \div 10

\* mutant of top_10_balance: the rows ranked in ascending order
bottom_10_balance(b) ==
    LET ranked == OrderAsc(b)
    IN  RSum([rn \in 1..Len(b) |->
                 IF rn <= TopCount(Len(b)) THEN ranked[rn] ELSE Zero])

\* SUM(CASE WHEN rn <= CEIL(n * 0.10) THEN balance ELSE 0 END)
top_10_balance(b) ==
    LET ranked == OrderDesc(b)
    IN  RSum([rn \in 1..Len(b) |->
                 IF rn <= TopCount(Len(b)) THEN ranked[rn] ELSE Zero])

\* top10 groups the ranked rows by total_balance, the same in every row:
\* one row when base has rows, none otherwise.
wealth_df(t, w) ==
    LET b == base(t, w)
        total_balance == RSum(b)
        top == top_10_balance(b)
    IN  IF b = <<>> THEN <<>>
        ELSE <<[total_balance  |-> total_balance,
                top_10_balance |-> top,
                top_10_share   |-> Fetch(IF total_balance = Zero THEN NULL
                                         ELSE RDiv(top, total_balance))]>>

\* wealth_df.iloc[0].to_dict() if not wealth_df.empty else {}.  Only
\* wealth.get(key) is applied to it, so a missing key is held as None.
wealth_dict(df) ==
    IF df = <<>>
    THEN [total_balance |-> None, top_10_balance |-> None, top_10_share |-> None]
    ELSE df[1]

\* SUM(balance) OVER (ORDER BY rn): the running sums of the ordered rows
RECURSIVE CumSum(_, _)
CumSum(ordered, before) ==
    IF ordered = <<>> THEN <<>>
    ELSE <<RAdd(before, Head(ordered))>>
         \o CumSum(Tail(ordered), RAdd(before, Head(ordered)))

lorenz_query(t, w) ==
    LET ordered == OrderAsc(base(t, w))
        n == Len(ordered)
        total == RSum(ordered)
        cum_balance == CumSum(ordered, Zero)
    IN  [rn \in 1..n |->
            [rn |-> rn,
             n  |-> n,
             cum_pop_share    |-> Fetch(IF n = 0 THEN NULL ELSE Rat(rn, n)),
             cum_wealth_share |-> Fetch(IF total = Zero THEN NULL
                                        ELSE RDiv(cum_balance[rn], total))]]

\* float arithmetic: NaN in, NaN out
FAdd(a, b) == IF a = NaN \/ b = NaN THEN NaN ELSE RAdd(a, b)

FSub(a, b) == IF a = NaN \/ b = NaN THEN NaN ELSE RSub(a, b)

FMul(a, b) == IF a = NaN \/ b = NaN THEN NaN ELSE RMul(a, b)

\* mutant of trapz_fn: the rectangle rule on the right end points
RECURSIVE rectangle_fn(_, _, _)
rectangle_fn(y, x, i) ==
    IF i >= Len(x) THEN Zero
    ELSE FAdd(FMul(FSub(x[i + 1], x[i]), y[i + 1]), rectangle_fn(y, x, i + 1))

\* numpy trapezoid(y, x): sum of (x[i+1] - x[i]) * (y[i+1] + y[i]) / 2
RECURSIVE trapz_fn(_, _, _)
trapz_fn(y, x, i) ==
    IF i >= Len(x) THEN Zero
    ELSE FAdd(FMul(FMul(FSub(x[i + 1], x[i]), FAdd(y[i + 1], y[i])), Rat(1, 2)),
              trapz_fn(y, x, i + 1))

\* not lorenz_df.empty and not lorenz_df["cum_pop_share"].isna().all()
HasCurve(df) == df # <<>> /\ \E i \in DOMAIN df : df[i].cum_pop_share # NaN

\* mutant of Curve: the origin is not prepended
CurveNoOrigin(df) ==
    IF HasCurve(df)
    THEN [i \in DOMAIN df |-> [cum_pop_share    |-> df[i].cum_pop_share,
                               cum_wealth_share |-> df[i].cum_wealth_share]]
    ELSE None

\* start = DataFrame([0.0], [0.0]); curve = concat([start, lorenz_df[...]])
Curve(df) ==
    IF HasCurve(df)
    THEN <<[cum_pop_share |-> Zero, cum_wealth_share |-> Zero]>>
         \o [i \in DOMAIN df |-> [cum_pop_share    |-> df[i].cum_pop_share,
                                  cum_wealth_share |-> df[i].cum_wealth_share]]
    ELSE None

\* gini = 1 - 2 * area, set where the curve is set
Gini(c) ==
    IF c # None
    THEN LET area == trapz_fn(Field(c, "cum_wealth_share"), Field(c, "cum_pop_share"), 1)
         IN  FSub(One, FMul(Num(2), area))
    ELSE None

\* mutant of Ntile: buckets of CEIL(n / 10) rows each
NtileWidth(rn, n) == (rn - 1) \div ((n + 9) \div 10) + 1

\* NTILE(10) OVER (ORDER BY balance DESC) of row rn of n: the first n % 10
\* buckets hold n \div 10 + 1 rows, the others n \div 10.
Ntile(rn, n) ==
    LET q == n \div 10
        r == n % 10
    IN  IF rn <= r * (q + 1) THEN (rn - 1) \div (q + 1) + 1
        ELSE r + (rn - r * (q + 1) - 1) \div q + 1

deciles_query(t, w) ==
    LET ranked == OrderDesc(base(t, w))
        n == Len(ranked)
        deciled == [rn \in 1..n |-> [balance |-> ranked[rn], decile |-> Ntile(rn, n)]]
        used == {deciled[rn].decile : rn \in 1..n}
        \* GROUP BY decile ORDER BY decile
        nth(i) == CHOOSE d \in used : Cardinality({e \in used : e < d}) = i - 1
        group(d) ==
            LET bal == Field(SelectSeq(deciled, LAMBDA row : row.decile = d), "balance")
            IN  [decile        |-> d,
                 accounts      |-> Len(bal),
                 min_balance   |-> OrderAsc(bal)[1],
                 avg_balance   |-> RDiv(RSum(bal), Num(Len(bal))),
                 max_balance   |-> OrderDesc(bal)[1],
                 total_balance |-> RSum(bal)]
    IN  [i \in 1..Cardinality(used) |-> group(nth(i))]

-----------------------------------------------------------------------------
(* Segment queries.  The store defines the order of the rows of a result   *)
(* only as far as ORDER BY tells them apart, so a result is the sequence   *)
(* of its classes of rows with equal sort keys, each class a set.          *)

\* GROUP BY 1: one group per distinct value of the column, NULL being one
Group(rows, c, v) == SelectSeq(rows, LAMBDA row : row[c] = v)

\* fetchdf(): a NULL of a text column arrives as None
FetchKey(v) == IF v = NULL THEN None ELSE v

\* CASE risk_tolerance WHEN 'Low' THEN 1 WHEN 'Medium' THEN 2
\*                     WHEN 'High' THEN 3 ELSE 4 END
RiskRank(v) ==
    IF v = Low THEN 1 ELSE IF v = Medium THEN 2 ELSE IF v = High THEN 3 ELSE 4

\* the classes that have a row, in their order
Classes(q) == SelectSeq(q, LAMBDA class : class # {})

\* FROM BASE GROUP BY 1: the query has no WHERE clause.
risk_full_query(t) ==
    LET row(v) ==
            LET g == Group(t, "risk_tolerance", v)
            IN  [risk_tolerance    |-> FetchKey(v),
                 accounts          |-> Num(Len(g)),
                 total_balance     |-> Fetch(SqlSum(Field(g, "balance"))),
                 total_loan_amount |-> Fetch(SqlSum(Field(g, "loan_amount"))),
                 avg_net_flow      |-> Fetch(SqlAvg(Field(g, "net_flow")))]
        class(k) == {row(v) : v \in {u \in Column(t, "risk_tolerance") : RiskRank(u) = k}}
    IN  Classes(<<class(1), class(2), class(3), class(4)>>)

\* ORDER BY total_net_flow DESC: the largest total first, the groups whose
\* total is NULL after every number (the store sorts NULL last).
RECURSIVE OrderByFlowDesc(_)
OrderByFlowDesc(R) ==
    IF R = {} THEN <<>>
    ELSE LET numbered == {r \in R : IsNum(r.total_net_flow)}
             first ==
                 IF numbered = {} THEN R
                 ELSE {r \in numbered :
                          \A o \in numbered : RLe(o.total_net_flow, r.total_net_flow)}
         IN  <<first>> \o OrderByFlowDesc(R \ first)

\* SELECT c, SUM(net_flow), COUNT(*), SUM(balance) FROM BASE {where}
\* GROUP BY 1 ORDER BY total_net_flow DESC
flow_by_query(t, w, c) ==
    LET rows == Filtered(t, w)
        row(v) ==
            LET g == Group(rows, c, v)
            IN  [key            |-> FetchKey(v),
                 total_net_flow |-> Fetch(SqlSum(Field(g, "net_flow"))),
                 accounts       |-> Num(Len(g)),
                 total_balance  |-> Fetch(SqlSum(Field(g, "balance")))]
    IN  OrderByFlowDesc({row(v) : v \in Column(rows, c)})

-----------------------------------------------------------------------------
(* Formatting helpers and the narrative classifier.                        *)

IsMissing(x) == x = None \/ x = NaN

\* Rounding of a format specification: to the nearest integer, a tie to
\* the even one.
Round(x) ==
    LET q == x[1] \div x[2]
        r == x[1] - q * x[2]
    IN  IF 2 * r < x[2] THEN q
        ELSE IF 2 * r > x[2] THEN q + 1
        ELSE IF q % 2 = 0 THEN q ELSE q + 1

Dash == <<"-">>

\* f"{CURRENCY}{x:,.0f}": the currency sign and the rounded amount
fmt_money(x) == IF IsMissing(x) THEN Dash ELSE <<"$", Round(x)>>

\* f"{x * 100:.2f}%": the percentage in hundredths of a percent
fmt_pct_from_rate(x) ==
    IF IsMissing(x) THEN Dash ELSE <<"%", Round(RMul(RMul(x, Num(100)), Num(100)))>>

\* f"{x:.2%}": the percentage in hundredths of a percent
fmt_pct(x) == IF IsMissing(x) THEN Dash ELSE <<"%", Round(RMul(x, Num(10000)))>>

\* f"{gini:.3f}": thousandths, or the text nan
fmt_fixed3(x) == IF x = NaN THEN <<"nan">> ELSE <<"f", Round(RMul(x, Num(1000)))>>

\* every comparison with NaN is false
FLt(a, b) == a # NaN /\ b # NaN /\ RLt(a, b)

gini_label(g) ==
    IF g = None THEN "-"
    ELSE IF FLt(g, Rat(35, 100)) THEN "Relatively even distribution"
    ELSE IF FLt(g, Rat(55, 100)) THEN "Moderate concentration"
    ELSE IF FLt(g, Rat(70, 100)) THEN "High concentration"
    ELSE "Extreme concentration"

\* x or 0: None and zero are falsy, NaN is truthy
OrZero(x) == IF x = None \/ x = Zero THEN Zero ELSE x

\* lines 276-281
Summary(ov, we) ==
    [accounts       |-> OrZero(ov.accounts),
     total_balance  |-> OrZero(ov.total_balance),
     avg_net_flow   |-> OrZero(ov.avg_net_flow),
     total_net_flow |-> OrZero(ov.total_net_flow),
     top_10_share   |-> we.top_10_share,
     flow_direction |-> IF FLt(Zero, OrZero(ov.avg_net_flow))
                        THEN "growing" ELSE "shrinking"]

\* the values of the st.metric calls
Metrics(su, ov, we, g) ==
    [total_accounts     |-> <<"n", Round(su.accounts)>>,
     total_balance      |-> fmt_money(su.total_balance),
     total_loan_amount  |-> fmt_money(ov.total_loan_amount),
     weighted_avg_interest_rate |-> fmt_pct_from_rate(ov.weighted_avg_interest_rate),
     total_net_flow     |-> fmt_money(su.total_net_flow),
     avg_net_flow       |-> fmt_money(su.avg_net_flow),
     top_10_share       |-> fmt_pct(su.top_10_share),
     top_10_balance     |-> fmt_money(we.top_10_balance),
     gini               |-> IF g # None THEN <<fmt_fixed3(g), gini_label(g)>>
                            ELSE <<Dash>>]

-----------------------------------------------------------------------------
(* One pass of the script for a given session state.                       *)

Options == [risks |-> risks, regions |-> regions, acct_types |-> acct_types]

NoSelection ==
    [risk_tolerance_sel |-> {}, region_sel |-> {}, account_type_sel |-> {},
     _reset_filters |-> FALSE]

Where(ss, opts) ==
    build_where_clause(ss.risk_tolerance_sel, ss.region_sel, ss.account_type_sel, opts)

\* lines 150-282 and the st.metric calls, for the session state ss
RunScript(ss) ==
    /\ session_state' = ss
    /\ where' = Where(ss, Options)
    /\ overview' = overview_df(table, where')
    /\ wealth' = wealth_dict(wealth_df(table, where'))
    /\ lorenz_df' = lorenz_query(table, where')
    /\ curve' = Curve(lorenz_df')
    /\ gini' = Gini(curve')
    /\ deciles_df' = deciles_query(table, where')
    /\ risk_full_df' = risk_full_query(table)
    /\ flow_by_product_df' = flow_by_query(table, where', "account_type")
    /\ flow_by_region_df' = flow_by_query(table, where', "region")
    /\ summary' = Summary(overview', wealth')
    /\ metrics' = Metrics(summary', overview', wealth', gini')
    /\ UNCHANGED <<table, risks, regions, acct_types>>

\* The first pass: the options are loaded from the table, nothing is selected.
Start(t) ==
    LET opts == load_filter_options(t)
        w == Where(NoSelection, opts)
        ov == overview_df(t, w)
        we == wealth_dict(wealth_df(t, w))
        lz == lorenz_query(t, w)
    IN  /\ table = t
        /\ risks = opts.risks
        /\ regions = opts.regions
        /\ acct_types = opts.acct_types
        /\ session_state = NoSelection
        /\ where = w
        /\ overview = ov
        /\ wealth = we
        /\ lorenz_df = lz
        /\ curve = Curve(lz)
        /\ gini = Gini(Curve(lz))
        /\ deciles_df = deciles_query(t, w)
        /\ risk_full_df = risk_full_query(t)
        /\ flow_by_product_df = flow_by_query(t, w, "account_type")
        /\ flow_by_region_df = flow_by_query(t, w, "region")
        /\ summary = Summary(ov, we)
        /\ metrics = Metrics(Summary(ov, we), ov, we, Gini(Curve(lz)))

Toggle(S, v) == IF v \in S THEN S \ {v} ELSE S \cup {v}

\* st.sidebar.multiselect("Customer risk appetite", options=risks, ...)
SelectRisk(v) ==
    /\ v \in risks
    /\ RunScript([session_state EXCEPT
                     !.risk_tolerance_sel = Toggle(session_state.risk_tolerance_sel, v)])

\* st.sidebar.multiselect("Region", options=regions, ...)
SelectRegion(v) ==
    /\ v \in regions
    /\ RunScript([session_state EXCEPT
                     !.region_sel = Toggle(session_state.region_sel, v)])

\* st.sidebar.multiselect("Product type", options=acct_types, ...)
SelectAcct(v) ==
    /\ v \in acct_types
    /\ RunScript([session_state EXCEPT
                     !.account_type_sel = Toggle(session_state.account_type_sel, v)])

\* The "Clear filters" button sets _reset_filters and reruns; the rerun
\* resets the flag and empties the three selections before the widgets.
ClearFilters ==
    LET clicked == [session_state EXCEPT !._reset_filters = TRUE]
    IN  RunScript(IF clicked._reset_filters THEN NoSelection ELSE clicked)

\* A pass of the script in which one multiselect returns the list given:
\* build_where_clause and the queries applied to any lists, members of the
\* options or not.
PassRisks(selected) ==
    RunScript([session_state EXCEPT !.risk_tolerance_sel = selected])

PassRegions(selected) ==
    RunScript([session_state EXCEPT !.region_sel = selected])

PassAccts(selected) ==
    RunScript([session_state EXCEPT !.account_type_sel = selected])

-----------------------------------------------------------------------------
(* The account tables the checks draw from.                                *)

\* largest table of Spec
MaxRows == 2

\* largest table of SpecAgg
MaxAggRows == 2

\* largest table of SpecConc
MaxAccounts == 11

\* largest table of SpecFn
MaxFnRows == 1

\* largest amount moved between two accounts, in the checks of C9
MaxAmount == 1

\* largest table of SpecRoll
MaxRollRows == 2

Row(b, l, r, f, risk, region, acct) ==
    [balance |-> b, loan_amount |-> l, interest_rate |-> r, net_flow |-> f,
     risk_tolerance |-> risk, region |-> region, account_type |-> acct]

SeqsUpTo(S, n) == UNION {[1..k -> S] : k \in 0..n}

\* Spec: the categorical columns vary freely, the numeric ones a little.
FilterRows ==
    {Row(p[1], p[2], p[3], p[4], risk, region, acct) :
        p \in {<<Num(2), Num(1), Rat(1, 20), Num(1)>>, <<NULL, NULL, NULL, NULL>>},
        risk \in {NULL, Low, High},
        region \in {NULL, North, OBrien},
        acct \in {NULL, Savings}}

\* SpecAgg: the numeric columns vary freely, the categorical ones do not.
AggRows ==
    {Row(b, l, r, f, Low, North, Savings) :
        b \in {NULL, Num(-2), Num(0), Num(2)},
        l \in {NULL, Num(1)},
        r \in {NULL, Rat(1, 20), Rat(1, 10)},
        f \in {NULL, Num(1)}}

\* SpecConc: up to MaxAccounts rows of risk Low with a balance the
\* concentration queries keep, with or without a row of NULL balance and a
\* row of risk High and negative balance, which they drop.  The queries order
\* the rows themselves, so one stored order per multiset of balances is
\* enough.
Kept == <<Num(0), Num(1), Num(1000)>>

Dropped ==
    LET unknown == Row(NULL, NULL, NULL, NULL, Low, North, Savings)
        overdrawn == Row(Num(-1), NULL, NULL, NULL, High, North, Savings)
    IN  {<<>>, <<unknown>>, <<overdrawn>>, <<unknown, overdrawn>>}

\* the ascending sequences of length len over lo..hi
RECURSIVE Ascending(_, _, _)
Ascending(len, lo, hi) ==
    IF len = 0 THEN {<<>>}
    ELSE UNION {{<<i>> \o q : q \in Ascending(len - 1, i, hi)} : i \in lo..hi}

BalanceRows(b) == [i \in 1..Len(b) |-> Row(b[i], NULL, NULL, NULL, Low, North, Savings)]

ConcTables ==
    {d \o BalanceRows([i \in 1..Len(q) |-> Kept[q[i]]]) :
        d \in Dropped,
        q \in UNION {Ascending(len, 1, Len(Kept)) : len \in 0..MaxAccounts}}

\* SpecRoll: rows that differ in their segment and in their net flow, with
\* or without a value in each grouping column; "A" is a risk tier outside
\* Low, Medium, High that sorts before them as text.
Other == <<"A">>

RollRows ==
    {Row(Num(1), NULL, NULL, f, risk, seg[1], seg[2]) :
        f \in {Num(1), Num(2)},
        risk \in {NULL, Low, High, Other},
        seg \in {<<North, Savings>>, <<North, Loan>>, <<NULL, Savings>>, <<North, NULL>>}}
    \cup {Row(Num(1), NULL, NULL, NULL, Low, North, Savings)}

\* SpecFn: the lists handed to build_where_clause, known options or not
RiskLists == SUBSET {Low, Medium}

RegionLists == SUBSET {North, <<"X">>}

AcctLists == SUBSET {Savings, Loan}

Init == \E t \in SeqsUpTo(FilterRows, MaxRows) : Start(t)

InitAgg == \E t \in SeqsUpTo(AggRows, MaxAggRows) : Start(t)

InitConc == \E t \in ConcTables : Start(t)

InitFn == \E t \in SeqsUpTo(FilterRows, MaxFnRows) : Start(t)

InitRoll == \E t \in SeqsUpTo(RollRows, MaxRollRows) : Start(t)

Next ==
    \/ \E v \in risks : SelectRisk(v)
    \/ \E v \in regions : SelectRegion(v)
    \/ \E v \in acct_types : SelectAcct(v)
    \/ ClearFilters

\* SpecConc: the sessions that use the risk filter and the clear button
NextConc ==
    \/ \E v \in risks : SelectRisk(v)
    \/ ClearFilters

NextFn ==
    \/ \E selected \in RiskLists : PassRisks(selected)
    \/ \E selected \in RegionLists : PassRegions(selected)
    \/ \E selected \in AcctLists : PassAccts(selected)

Spec == Init /\ [][Next]_vars

SpecFn == InitFn /\ [][NextFn]_vars

SpecAgg == InitAgg /\ [][Next]_vars

SpecConc == InitConc /\ [][NextConc]_vars

SpecRoll == InitRoll /\ [][Next]_vars

-----------------------------------------------------------------------------
(* Properties.                                                             *)

Selected(column) ==
    IF column = "risk_tolerance" THEN session_state.risk_tolerance_sel
    ELSE IF column = "region" THEN session_state.region_sel
    ELSE session_state.account_type_sel

Known(column) ==
    IF column = "risk_tolerance" THEN risks
    ELSE IF column = "region" THEN regions
    ELSE acct_types

Dimensions == {"risk_tolerance", "region", "account_type"}

\* the membership test of the filter contract, per record
Member(row) ==
    \A c \in Dimensions :
        Selected(c) # {} => row[c] # NULL /\ row[c] \in Selected(c)

\* C1: with every selection empty or a non-empty subset of its options
\* (the whole set of options included), the predicate of the WHERE clause
\* accepts a record exactly when, in every dimension with a non-empty
\* selection, the record's value is non-NULL and selected.
C1_PredicateIsMembership ==
    (\A c \in Dimensions : Selected(c) \subseteq Known(c))
        => \A i \in DOMAIN table : Passes(where, table[i]) <=> Member(table[i])

\* C2: when no record passes, the overview shows 0 accounts, shows each of
\* the three sums as 0, and shows the average, the weighted rate, the
\* top-decile share and the Gini as the placeholder, not as 0 or nan.
C2_EmptySetOverview ==
    Filtered(table, where) = <<>> =>
        /\ summary.accounts = Zero
        /\ metrics.total_accounts = <<"n", 0>>
        /\ metrics.total_balance = <<"$", 0>>
        /\ metrics.total_loan_amount = <<"$", 0>>
        /\ metrics.total_net_flow = <<"$", 0>>
        /\ metrics.avg_net_flow = Dash
        /\ metrics.weighted_avg_interest_rate = Dash
        /\ metrics.top_10_share = Dash
        /\ metrics.gini = <<Dash>>

\* the passing records with a non-NULL interest_rate and a non-NULL balance
BothKnown ==
    SelectSeq(Filtered(table, where),
              LAMBDA row : row.interest_rate # NULL /\ row.balance # NULL)

\* C3: weighted_avg_interest_rate is the sum of interest_rate * balance over
\* the sum of balance, both over the passing records in which both are
\* non-NULL, and is undefined, not 0, when that sum of balance is 0.
C3_WeightedRate ==
    LET products == [i \in DOMAIN BothKnown |->
                        RMul(BothKnown[i].interest_rate, BothKnown[i].balance)]
        weights == RSum(Field(BothKnown, "balance"))
    IN  overview.weighted_avg_interest_rate =
            (IF weights = Zero THEN NaN ELSE RDiv(RSum(products), weights))

\* C10: a non-empty selection made only of values that are not options of
\* its dimension matches no record, however many values it holds.
C10_UnknownMatchesNothing ==
    (\E c \in Dimensions : Selected(c) # {} /\ Selected(c) \cap Known(c) = {})
        => /\ Filtered(table, where) = <<>>
           /\ overview.accounts = Zero

\* the balances the concentration queries keep, for the current filter
Eligible == base(table, where)

Bands ==
    {"Relatively even distribution", "Moderate concentration",
     "High concentration", "Extreme concentration"}

\* C4: when no balance is eligible or the eligible balances sum to 0, the
\* whole concentration result is undefined: no top-decile share, no Lorenz
\* curve, gini None (neither a number nor NaN) and so no band for it.
C4_UndefinedConcentration ==
    RSum(Eligible) = Zero =>
        /\ IsMissing(wealth.top_10_share)
        /\ curve = None
        /\ gini = None
        /\ gini_label(gini) \notin Bands

\* the sets of k of the numbers 1..n
RECURSIVE Choices(_, _)
Choices(n, k) ==
    IF k = 0 THEN {{}}
    ELSE IF n < k THEN {}
    ELSE Choices(n - 1, k) \cup {c \cup {n} : c \in Choices(n - 1, k - 1)}

RECURSIVE SumAt(_, _)
SumAt(b, c) ==
    IF c = {} THEN Zero
    ELSE LET i == CHOOSE i \in c : TRUE IN RAdd(b[i], SumAt(b, c \ {i}))

\* ceiling(0.10 * n): the least k with 10 * k >= n
Ceiling10(n) == CHOOSE k \in 0..n : 10 * k >= n /\ \A j \in 0..n : 10 * j >= n => k <= j

\* C5: with n eligible balances, total their sum and k = ceiling(0.10 * n),
\* top_10_balance is the largest sum any k of them have, top_10_share is
\* top_10_balance / total, undefined when n = 0, and 1 for the balances
\* 1000, 0, 0, 0, 0, 0, 0, 0, 0, 0.
C5_TopDecile ==
    LET b == Eligible
        n == Len(b)
        k == Ceiling10(n)
    IN  /\ n = 0 => IsMissing(wealth.top_10_balance) /\ IsMissing(wealth.top_10_share)
        /\ n > 0 =>
            /\ \E c \in Choices(n, k) : SumAt(b, c) = wealth.top_10_balance
            /\ \A c \in Choices(n, k) : RLe(SumAt(b, c), wealth.top_10_balance)
            /\ wealth.total_balance = RSum(b)
        /\ n > 0 /\ RSum(b) # Zero =>
            /\ IsNum(wealth.top_10_share)
            /\ RMul(wealth.top_10_share, RSum(b)) = wealth.top_10_balance
        /\ n > 0 /\ RSum(b) = Zero => IsMissing(wealth.top_10_share)
        /\ (/\ n = 10
            /\ \E i \in 1..n : /\ b[i] = Num(1000)
                               /\ \A j \in 1..n \ {i} : b[j] = Zero)
           => wealth.top_10_share = One

C5_Witness ==
    /\ where # <<>>
    /\ Len(Eligible) = 11
    /\ wealth.top_10_balance = Num(1001)
    /\ wealth.top_10_share = Rat(1001, 1003)

\* exactly one eligible balance is positive, the others are 0
SingleHolder(b) ==
    /\ Len(b) >= 1
    /\ \E i \in DOMAIN b : /\ RLt(Zero, b[i])
                           /\ \A j \in DOMAIN b \ {i} : b[j] = Zero

\* C6: when one eligible account holds a positive balance and the other
\* n - 1 hold 0, the Gini is 1 - 1/n; it is 0.9 for n = 10.
C6_SingleHolderGini ==
    SingleHolder(Eligible) =>
        /\ gini = Rat(Len(Eligible) - 1, Len(Eligible))
        /\ Len(Eligible) = 10 => gini = Rat(9, 10)

C6_Witness ==
    /\ where # <<>>
    /\ SingleHolder(Eligible)
    /\ Len(Eligible) = 10
    /\ gini = Rat(9, 10)

\* the eligible balances are all equal
Uniform(b) == Len(b) >= 1 /\ \A i \in DOMAIN b : b[i] = b[1]

\* C7 as stated: for n >= 1 eligible accounts with equal balances the Gini
\* is 0.
C7_UniformGiniZero == Uniform(Eligible) => gini = Zero

\* C7 amended: for n >= 1 eligible accounts with equal positive balances
\* the Gini is 0 and the Lorenz points lie on the diagonal.
C7_UniformPositiveGiniZero ==
    Uniform(Eligible) /\ RLt(Zero, Eligible[1]) =>
        /\ gini = Zero
        /\ \A i \in DOMAIN curve : curve[i].cum_wealth_share = curve[i].cum_pop_share

C7_Witness ==
    /\ where # <<>>
    /\ Uniform(Eligible)
    /\ Len(Eligible) = 11
    /\ Eligible[1] = Num(1000)
    /\ gini = Zero

\* the accounts column of the decile table, 0 for a decile without a row
DecileCount(d) ==
    IF \E i \in DOMAIN deciles_df : deciles_df[i].decile = d
    THEN (CHOOSE r \in {deciles_df[i] : i \in DOMAIN deciles_df} : r.decile = d).accounts
    ELSE 0

RECURSIVE SumCounts(_)
SumCounts(d) == IF d = 0 THEN 0 ELSE DecileCount(d) + SumCounts(d - 1)

\* C8: the decile table's counts sum to the number n of eligible accounts,
\* any two deciles' counts differ by at most one, all 10 deciles have rows
\* when n >= 10, and decile d holds no balance below one of decile d + 1.
C8_Deciles ==
    LET n == Len(Eligible)
    IN  /\ \A i \in DOMAIN deciles_df : deciles_df[i].decile \in 1..10
        /\ \A i, j \in DOMAIN deciles_df :
               i < j => deciles_df[i].decile < deciles_df[j].decile
        /\ SumCounts(10) = n
        /\ \A d, e \in 1..10 : DecileCount(d) - DecileCount(e) <= 1
        /\ n >= 10 => \A d \in 1..10 : DecileCount(d) >= 1
        /\ \A i, j \in DOMAIN deciles_df :
               deciles_df[i].decile < deciles_df[j].decile
                   => RLe(deciles_df[j].max_balance, deciles_df[i].min_balance)

C8_Witness ==
    /\ where # <<>>
    /\ Len(Eligible) = 11
    /\ Len(deciles_df) = 10
    /\ deciles_df[1].accounts = 2
    /\ deciles_df[2].accounts = 1
    /\ deciles_df[1].min_balance = Num(1)
    /\ deciles_df[1].max_balance = Num(1000)

\* the records passing the current filter
Passing == Filtered(table, where)

\* twice the median of the non-NULL balances s, in ascending order
TwiceMedian(s) == RAdd(s[(Len(s) + 1) \div 2], s[Len(s) \div 2 + 1])

BelowMedian(x, s) == RLt(RMul(Num(2), x), TwiceMedian(s))

AboveMedian(x, s) == RLt(TwiceMedian(s), RMul(Num(2), x))

\* the amount d moved from record i to record j
Move(rows, i, j, d) ==
    [rows EXCEPT ![i].balance = RSub(@, d), ![j].balance = RAdd(@, d)]

\* the top-decile share the program computes for a record set
ShareOf(rows) == wealth_dict(wealth_df(rows, <<>>)).top_10_share

NotDecreased(before, after) == IsNum(before) => IsNum(after) /\ RLe(before, after)

Amounts == {Rat(a, 2) : a \in 1..(2 * MaxAmount)}

\* The share depends on the balances alone, so among the passing records
\* with one balance the first stands for them all.
Accounts ==
    {i \in DOMAIN Passing :
        /\ Passing[i].balance # NULL
        /\ \A j \in 1..(i - 1) : Passing[j].balance # Passing[i].balance}

\* the moves from an account below the median to one above it
Moves ==
    LET s == OrderAsc(NonNull(Field(Passing, "balance")))
    IN  {m \in Accounts \X Accounts \X Amounts :
            /\ BelowMedian(Passing[m[1]].balance, s)
            /\ AboveMedian(Passing[m[2]].balance, s)}

\* C9 as stated: moving any amount from an account below the median
\* balance to one above it never decreases the top-decile share.
C9_MoveNeverDecreasesShare ==
    \A m \in Moves :
        NotDecreased(wealth.top_10_share, ShareOf(Move(Passing, m[1], m[2], m[3])))

\* C9 amended: moving an amount no larger than the balance of the account
\* it is taken from, from an account below the median balance to one above
\* it, never decreases the top-decile share.
C9_CoveredMoveNeverDecreasesShare ==
    \A m \in Moves :
        RLe(m[3], Passing[m[1]].balance)
            => NotDecreased(wealth.top_10_share,
                            ShareOf(Move(Passing, m[1], m[2], m[3])))

C9_Witness ==
    /\ where # <<>>
    /\ Len(Eligible) = 10
    /\ \E m \in Moves :
           /\ RLe(m[3], Passing[m[1]].balance)
           /\ IsNum(wealth.top_10_share)
           /\ RLt(wealth.top_10_share, ShareOf(Move(Passing, m[1], m[2], m[3])))

-----------------------------------------------------------------------------
(* C11: the segment rollups.                                                *)

\* the rows of a result, whatever their order
RowsOf(df) == UNION {df[i] : i \in DOMAIN df}

\* the distinct non-NULL values of column c among the passing records
GroupValues(c) == Column(Passing, c) \ {NULL}

\* one row per distinct non-NULL group value and no other row
OneRowPerValue(keys, c) ==
    /\ \A v \in GroupValues(c) : Cardinality({i \in DOMAIN keys : keys[i] = v}) = 1
    /\ \A i \in DOMAIN keys : keys[i] \in GroupValues(c)

\* the keys of the rows of a result, one entry per row
RECURSIVE KeysOf(_, _)
KeysOf(R, field) ==
    IF R = {} THEN <<>>
    ELSE LET r == CHOOSE x \in R : TRUE
         IN  <<r[field]>> \o KeysOf(R \ {r}, field)

RiskRollupOverPassing ==
    \A r \in RowsOf(risk_full_df) :
        LET g == Group(Passing, "risk_tolerance", r.risk_tolerance)
        IN  /\ r.accounts = Num(Len(g))
            /\ r.total_balance = Fetch(SqlSum(Field(g, "balance")))
            /\ r.total_loan_amount = Fetch(SqlSum(Field(g, "loan_amount")))
            /\ r.avg_net_flow = Fetch(SqlAvg(Field(g, "net_flow")))

FlowRollupOverPassing(df, c) ==
    \A r \in RowsOf(df) :
        LET g == Group(Passing, c, r.key)
        IN  /\ r.accounts = Num(Len(g))
            /\ r.total_net_flow = Fetch(SqlSum(Field(g, "net_flow")))
            /\ r.total_balance = Fetch(SqlSum(Field(g, "balance")))

\* Low, Medium, High, then any other value
RiskOrder ==
    \A i, j \in DOMAIN risk_full_df :
        i < j => \A r \in risk_full_df[i], o \in risk_full_df[j] :
                    /\ RiskRank(r.risk_tolerance) < RiskRank(o.risk_tolerance)
                    /\ Cardinality(risk_full_df[i]) = 1

\* descending total_net_flow, as far as the totals are numbers
FlowOrder(df) ==
    \A i, j \in DOMAIN df :
        i < j => \A r \in df[i], o \in df[j] :
                    IsNum(r.total_net_flow) /\ IsNum(o.total_net_flow)
                        => RLt(o.total_net_flow, r.total_net_flow)

\* C11: every segment rollup (by risk_tolerance, by account_type, by
\* region) is computed over exactly the records passing the current filter
\* predicate, has exactly one row per distinct non-NULL group value among
\* them and no row for the NULL group; the risk rows come in the order Low,
\* Medium, High, then any other value, the product and region rows in
\* descending total_net_flow.
C11_SegmentRollups ==
    /\ OneRowPerValue(KeysOf(RowsOf(risk_full_df), "risk_tolerance"), "risk_tolerance")
    /\ OneRowPerValue(KeysOf(RowsOf(flow_by_product_df), "key"), "account_type")
    /\ OneRowPerValue(KeysOf(RowsOf(flow_by_region_df), "key"), "region")
    /\ RiskRollupOverPassing
    /\ FlowRollupOverPassing(flow_by_product_df, "account_type")
    /\ FlowRollupOverPassing(flow_by_region_df, "region")
    /\ RiskOrder
    /\ FlowOrder(flow_by_product_df)
    /\ FlowOrder(flow_by_region_df)

====
